---- MODULE Spec2Model ----
(***************************************************************************)
(* Story matching and chat memory of the digital-twin bot.                 *)
(*                                                                         *)
(* Scores (similarity, distance, judge score) are fixed-point numbers in   *)
(* thousandths: 850 stands for 0.85.  combined_score is carried in units   *)
(* of 1/10000 and the confidence of a sharing decision in units of         *)
(* 1/1000000, so that every product of the source is exact.                *)
(***************************************************************************)
EXTENDS Integers, Sequences, FiniteSets, TLC

VARIABLES
    embedding_cache,   \* StoryMatcher._embedding_cache: text -> vector
    judge_cache,       \* StoryMatcher.judge_cache: key -> list of StoryMatch
    last,              \* the most recent matcher call: inputs, remote calls, result
    prev,              \* the latest earlier decision call for a memory with no
                       \* story shared, where the scenario keeps it
    calls,             \* matcher calls made so far
    chat_memories,     \* DigitalTwinBot.chat_memories: chat -> list of 0 or 1 memory
    db_memory,         \* table chat_memories: list of 0 or 1 persisted memory
    used_count,        \* table stories, column used_count
    is_initialized,    \* DigitalTwinBot.is_initialized
    turn,              \* the most recent turn of the chat
    scored,            \* a StoryMatch's score fields and its combined_score
    queue,             \* updates of the chat waiting in the dispatcher
    running,           \* turns of the chat whose handler has started and not ended
    init_result,       \* what the latest initialize() of this bot object returned
    story_embeddings   \* table story_embeddings, rows of this bot: their story_id

vars == <<embedding_cache, judge_cache, last, prev, calls, chat_memories,
          db_memory, used_count, is_initialized, turn, scored, queue, running,
          init_result, story_embeddings>>

matcherVars == <<embedding_cache, judge_cache, last, prev, calls>>
botVars == <<chat_memories, db_memory, used_count, is_initialized, turn>>
sideVars == <<scored, queue, running, init_result, story_embeddings>>

----------------------------------------------------------------------------
(* Bounds of the model *)

MaxCalls == 2
MaxStoriesArg == 2
MaxMsgs == 22
MaxQueued == 2
MaxDispatched == 7
MaxRecords == 4

----------------------------------------------------------------------------
(* The story table *)

BotId == "botA"

Stories == {"s1", "s2", "s3", "s4"}
OtherBotStories == {"x1"}
AllStories == Stories \cup OtherBotStories

StoryOrder == <<"x1", "s1", "s2", "s3", "s4">>

StoryIndex(s) == CHOOSE i \in 1..Len(StoryOrder) : StoryOrder[i] = s

StoryBot(s) == IF s \in Stories THEN BotId ELSE "botB"

StoryThemes(s) ==
    CASE s = "s1" -> <<"work", "stress">>
      [] s = "s2" -> <<"family">>
      [] s = "s3" -> <<"Work">>
      [] s = "s4" -> <<"travel">>
      [] OTHER    -> <<"work">>

InitUsedCount == [s \in AllStories |->
    CASE s = "s1" -> 0
      [] s = "s2" -> 1
      [] s = "s3" -> 3
      [] OTHER    -> 0]

(* Query vectors the embedding service may answer with, and the distance  *)
(* and similarity of each stored story embedding to them.                  *)
Vectors == {"v1", "v2"}

DistOf(v, s) ==
    CASE v = "v1" /\ s = "s1" -> 150
      [] v = "v1" /\ s = "s2" -> 390
      [] v = "v1" /\ s = "s3" -> 300
      [] v = "v1" /\ s = "s4" -> 250
      [] v = "v1" /\ s = "x1" -> 100
      [] v = "v2" /\ s = "s2" -> 390
      [] v = "v2" /\ s = "x1" -> 0
      [] OTHER                -> 1200

SimOf(v, s) == IF DistOf(v, s) >= 1000 THEN 0 ELSE 1000 - DistOf(v, s)

----------------------------------------------------------------------------
(* Small helpers *)

Min(a, b) == IF a <= b THEN a ELSE b

Range(seq) == {seq[i] : i \in 1..Len(seq)}

Lower(str) == IF str = "Work" THEN "work" ELSE str

LastFive(seq) ==
    IF Len(seq) <= 5 THEN seq ELSE SubSeq(seq, Len(seq) - 4, Len(seq))

----------------------------------------------------------------------------
(* StoryMatch and its combined score, in units of 1/10000 *)

(* Variant of the score that does not cap the distance at 1. *)
CombinedScoreUncapped(m) ==
    5 * m.vector_similarity + 4 * m.llm_judge_score + (1000 - m.distance)

CombinedScore(m) ==
    5 * m.vector_similarity + 4 * m.llm_judge_score
      + (1000 - Min(m.distance, 1000))

(* A StoryMatch as far as combined_score reads it, and the score once   *)
(* the property was read: a list of no or one number.                     *)
ScoreFields(vs, js, d) ==
    [vector_similarity |-> vs, llm_judge_score |-> js, distance |-> d,
     combined |-> <<>>]

NoScore == ScoreFields(0, 0, 0)

FallbackMarker == "Vector similarity only (LLM judge unavailable)"
GateFallbackMarker == "Fallback to vector similarity"

StoryOfCandidate(c) ==
    [story_id |-> c.story_id, bot_id |-> c.bot_id, themes |-> c.themes,
     used_count |-> c.used_count]

MakeMatch(c, score, reasoning) ==
    [story |-> StoryOfCandidate(c),
     vector_similarity |-> c.similarity,
     llm_judge_score |-> score,
     reasoning |-> reasoning,
     distance |-> c.distance]

----------------------------------------------------------------------------
(* Embedding provider and cache *)

EmptyCache == [k \in {} |-> "none"]

BuildEnhancedContext(context, mem) ==
    [context |-> context,
     themes |-> LastFive(mem.conversation_themes),
     interests |-> mem.user_interests,
     stage |-> mem.relationship_stage]

(* Variants of the provider that part from the code: one that never      *)
(* stores a vector, one that answers a failure with a stored zero vector. *)
GenerateEmbeddingNoStore(text, cache, envEmbed) ==
    IF text \in DOMAIN cache
    THEN [raised |-> FALSE, vector |-> cache[text], cache |-> cache,
          status |-> "hit"]
    ELSE IF envEmbed = "fail"
    THEN [raised |-> TRUE, vector |-> "none", cache |-> cache,
          status |-> "fail"]
    ELSE [raised |-> FALSE, vector |-> envEmbed, cache |-> cache,
          status |-> "ok"]

GenerateEmbeddingZeroOnFailure(text, cache, envEmbed) ==
    IF text \in DOMAIN cache
    THEN [raised |-> FALSE, vector |-> cache[text], cache |-> cache,
          status |-> "hit"]
    ELSE IF envEmbed = "fail"
    THEN [raised |-> FALSE, vector |-> "zero",
          cache |-> (text :> "zero") @@ cache, status |-> "fail"]
    ELSE [raised |-> FALSE, vector |-> envEmbed,
          cache |-> (text :> envEmbed) @@ cache, status |-> "ok"]

(* envEmbed is what the remote embedding call would do if it were issued: *)
(* "fail", or the vector it answers with.                                  *)
GenerateEmbedding(text, cache, envEmbed) ==
    IF text \in DOMAIN cache
    THEN [raised |-> FALSE, vector |-> cache[text], cache |-> cache,
          status |-> "hit"]
    ELSE IF envEmbed = "fail"
    THEN [raised |-> TRUE, vector |-> "none", cache |-> cache,
          status |-> "fail"]
    ELSE [raised |-> FALSE, vector |-> envEmbed,
          cache |-> (text :> envEmbed) @@ cache, status |-> "ok"]

----------------------------------------------------------------------------
(* Vector store *)

CandidateOf(v, s, uc) ==
    [story_id |-> s, bot_id |-> StoryBot(s), themes |-> StoryThemes(s),
     used_count |-> uc[s], similarity |-> SimOf(v, s),
     distance |-> DistOf(v, s)]

Closer(v, a, b) ==
    \/ DistOf(v, a) < DistOf(v, b)
    \/ DistOf(v, a) = DistOf(v, b) /\ StoryIndex(a) < StoryIndex(b)

Nearest(v, set) == CHOOSE a \in set : \A b \in set \ {a} : Closer(v, a, b)

RECURSIVE NearestFirst(_, _)
PutNearest(v, set, best) == <<best>> \o NearestFirst(v, set \ {best})

NearestFirst(v, set) ==
    IF set = {} THEN <<>> ELSE PutNearest(v, set, Nearest(v, set))

FirstN(seq, n) == IF n <= 0 THEN <<>> ELSE SubSeq(seq, 1, Min(n, Len(seq)))

(* The remote procedure match_stories of the vector store. *)
CandidatesOf(v, top, uc) ==
    [i \in 1..Len(top) |-> CandidateOf(v, top[i], uc)]

MatchStoriesRPC(v, bot_id, excluded, match_threshold, match_count, uc) ==
    CandidatesOf(v,
        FirstN(NearestFirst(v, {s \in AllStories :
                                  /\ StoryBot(s) = bot_id
                                  /\ s \notin Range(excluded)
                                  /\ DistOf(v, s) <= match_threshold}),
               match_count),
        uc)

(* Variant of the search that sends no excluded ids. *)
SearchWithoutExclusion(v, excluded, max_candidates, threshold, envSearch, uc) ==
    IF envSearch = "fail" THEN <<>>
    ELSE MatchStoriesRPC(v, BotId, <<>>, 1000 - threshold,
                         max_candidates, uc)

(* Variant of the search that asks for the stories of another bot. *)
SearchOfAnotherBot(v, excluded, max_candidates, threshold, envSearch, uc) ==
    IF envSearch = "fail" THEN <<>>
    ELSE MatchStoriesRPC(v, "botB", excluded, 1000 - threshold,
                         max_candidates, uc)

VectorSimilaritySearch(v, excluded, max_candidates, threshold, envSearch, uc) ==
    IF envSearch = "fail" THEN <<>>
    ELSE MatchStoriesRPC(v, BotId, excluded, 1000 - threshold,
                         max_candidates, uc)

----------------------------------------------------------------------------
(* Bulk judge: ranking of the vector candidates *)

(* Variant of the fallback that scores every candidate 0. *)
FallbackMatchesUnscored(cands) ==
    [i \in 1..Len(cands) |-> MakeMatch(cands[i], 0, FallbackMarker)]

CreateFallbackMatches(cands) ==
    [i \in 1..Len(cands) |-> MakeMatch(cands[i], cands[i].similarity,
                                       FallbackMarker)]

StoryIdx(ev) == (IF ev.idx_kind = "absent" THEN 1 ELSE ev.idx) - 1

EvalScore(ev) == IF ev.score_kind = "absent" THEN 0 ELSE ev.score

RECURSIVE ParseEvaluations(_, _)
ParseEvaluation(ev, idx, cands, rest) ==
    IF 0 <= idx /\ idx < Len(cands)
    THEN <<MakeMatch(cands[idx + 1], EvalScore(ev), "judged")>> \o rest
    ELSE rest

ParseEvaluations(evals, cands) ==
    IF evals = <<>> THEN <<>>
    ELSE ParseEvaluation(Head(evals), StoryIdx(Head(evals)), cands,
                         ParseEvaluations(Tail(evals), cands))

ParseLlmResponse(resp, cands) ==
    IF resp.kind = "garbage" THEN CreateFallbackMatches(cands)
    ELSE IF \E i \in 1..Len(resp.evaluations) :
                resp.evaluations[i].idx_kind = "bad"
    THEN CreateFallbackMatches(cands)
    ELSE ParseEvaluations(resp.evaluations, cands)

(* The reply of the remote judge to a ranking prompt over n candidates.  *)
ScoreAt(i) ==
    CASE i = 1 -> 900
      [] i = 2 -> 500
      [] i = 3 -> 700
      [] OTHER -> 300

Eval(idx, score) ==
    [idx_kind |-> "int", idx |-> idx, score_kind |-> "num", score |-> score]

JudgeReply(envJudge, n) ==
    [kind |-> envJudge.kind,
     evaluations |->
        CASE envJudge.pattern = "inorder" ->
                [i \in 1..n |-> Eval(i, ScoreAt(i))]
          [] envJudge.pattern = "reversed" ->
                [i \in 1..n |-> Eval(n + 1 - i, ScoreAt(i))]
          [] envJudge.pattern = "dup" ->
                <<Eval(1, 900), Eval(1, 500)>>
          [] envJudge.pattern = "oob" ->
                <<Eval(n + 1, 900), Eval(0, 700), Eval(1, 500)>>
          [] envJudge.pattern = "bad" ->
                <<Eval(1, 900),
                  [idx_kind |-> "bad", idx |-> 0, score_kind |-> "num",
                   score |-> 500]>>
          [] envJudge.pattern = "over" ->
                <<Eval(1, 1500)>>
          [] envJudge.pattern = "absent" ->
                <<[idx_kind |-> "absent", idx |-> 0,
                   score_kind |-> "absent", score |-> 0]>>
          [] OTHER -> <<>>]

(* Variant of the cache key that leaves the context out. *)
CacheKeyWithoutContext(context, cands) ==
    [context |-> "ctxA",
     ids |-> [i \in 1..Len(cands) |-> cands[i].story_id]]

CacheKey(context, cands) ==
    [context |-> context,
     ids |-> [i \in 1..Len(cands) |-> cands[i].story_id]]

(* The judged list is stored under the key and returned. *)
CacheJudged(key, judged, cache) ==
    [matches |-> judged, cache |-> (key :> judged) @@ cache,
     status |-> "remote_ok", cached |-> TRUE]

(* Variant of the ranking that stores the fallback matches of a failed   *)
(* remote call under the key.                                             *)
JudgeRankingCachingFallback(key, cands, cache, envJudge) ==
    IF cands = <<>>
    THEN [matches |-> <<>>, cache |-> cache, status |-> "skipped",
          cached |-> FALSE]
    ELSE IF key \in DOMAIN cache
    THEN [matches |-> cache[key], cache |-> cache, status |-> "hit",
          cached |-> TRUE]
    ELSE IF envJudge.kind = "fail"
    THEN [matches |-> CreateFallbackMatches(cands),
          cache |-> (key :> CreateFallbackMatches(cands)) @@ cache,
          status |-> "remote_fail", cached |-> TRUE]
    ELSE CacheJudged(key,
            ParseLlmResponse(JudgeReply(envJudge, Len(cands)), cands), cache)

(* cached: the returned list is the very list object the cache holds. *)
JudgeRankingAt(key, cands, cache, envJudge) ==
    IF cands = <<>>
    THEN [matches |-> <<>>, cache |-> cache, status |-> "skipped",
          cached |-> FALSE]
    ELSE IF key \in DOMAIN cache
    THEN [matches |-> cache[key], cache |-> cache, status |-> "hit",
          cached |-> TRUE]
    ELSE IF envJudge.kind = "fail"
    THEN [matches |-> CreateFallbackMatches(cands), cache |-> cache,
          status |-> "remote_fail", cached |-> FALSE]
    ELSE CacheJudged(key,
            ParseLlmResponse(JudgeReply(envJudge, Len(cands)), cands), cache)

LlmJudgeRanking(context, cands, cache, envJudge) ==
    JudgeRankingAt(CacheKey(context, cands), cands, cache, envJudge)

----------------------------------------------------------------------------
(* Selection pass: boosts, sort, cut *)

(* Variant of the interest boost that counts every interest of the user, *)
(* a theme of the story or not.                                           *)
InterestBoostPerInterest(m, interests) == 100 * Len(interests)

InterestBoost(m, interests) ==
    100 * Cardinality({i \in 1..Len(interests) :
            Lower(interests[i]) \in
                {Lower(m.story.themes[j]) : j \in 1..Len(m.story.themes)}})

NoveltyBoost(m) ==
    IF m.story.used_count = 0 THEN 100
    ELSE IF m.story.used_count < 3 THEN 50
    ELSE 0

(* Variant of the boosts that does not cap the judge score. *)
BoostMatchUncapped(m, interests) ==
    [m EXCEPT !.llm_judge_score = @ + InterestBoost(m, interests),
              !.vector_similarity = @ + NoveltyBoost(m)]

BoostMatch(m, interests) ==
    [m EXCEPT !.llm_judge_score = Min(1000, @ + InterestBoost(m, interests)),
              !.vector_similarity = @ + NoveltyBoost(m)]

(* Variant of the sort that leaves the list in the order of the judge. *)
InJudgeOrder(ms) == ms

(* Stable insertion into a list sorted by descending combined score. *)
RECURSIVE InsertByScore(_, _)
InsertByScore(m, sorted) ==
    IF sorted = <<>> THEN <<m>>
    ELSE IF CombinedScore(Head(sorted)) >= CombinedScore(m)
    THEN <<Head(sorted)>> \o InsertByScore(m, Tail(sorted))
    ELSE <<m>> \o sorted

RECURSIVE SortByScore(_)
SortByScore(ms) ==
    IF ms = <<>> THEN <<>>
    ELSE InsertByScore(ms[Len(ms)], SortByScore(SubSeq(ms, 1, Len(ms) - 1)))

(* all: the list passed in, after the pass has changed it in place;      *)
(* selected: the list handed back.                                        *)
TopMatches(sorted, max_stories) ==
    [all |-> sorted, selected |-> FirstN(sorted, max_stories)]

ApplySelectionCriteria(matches, mem, max_stories) ==
    TopMatches(SortByScore([i \in 1..Len(matches) |->
                              BoostMatch(matches[i], mem.user_interests)]),
               max_stories)

----------------------------------------------------------------------------
(* Appropriateness gate and the sharing decision *)

(* Variant of the gate whose fallback scores the candidate 0. *)
EvaluateWithUnscoredFallback(candidate, envGate) ==
    IF envGate.kind \in {"fail", "garbage"}
    THEN [match |-> MakeMatch(candidate, 0, GateFallbackMarker),
          status |-> "fallback", score_bad |-> FALSE]
    ELSE [match |-> MakeMatch(candidate,
                              IF envGate.score_kind = "num"
                              THEN envGate.score ELSE 0,
                              "judged"),
          status |-> "judged", score_bad |-> envGate.score_kind = "bad"]

(* Variant of the gate that scores the candidate 0 when the response    *)
(* says should_share_now is false.                                        *)
EvaluateHeedingTheHint(candidate, envGate) ==
    IF envGate.kind \in {"fail", "garbage"}
    THEN [match |-> MakeMatch(candidate, candidate.similarity,
                              GateFallbackMarker),
          status |-> "fallback", score_bad |-> FALSE]
    ELSE [match |-> MakeMatch(candidate,
                              IF envGate.score_kind = "num" /\ envGate.hint
                              THEN envGate.score ELSE 0,
                              "judged"),
          status |-> "judged", score_bad |-> envGate.score_kind = "bad"]

(* score_bad: the response holds a score that is no number; the match    *)
(* then carries it and the arithmetic of combined_score raises.           *)
EvaluateStorySharingAppropriateness(candidate, envGate) ==
    IF envGate.kind \in {"fail", "garbage"}
    THEN [match |-> MakeMatch(candidate, candidate.similarity,
                              GateFallbackMarker),
          status |-> "fallback", score_bad |-> FALSE]
    ELSE [match |-> MakeMatch(candidate,
                              IF envGate.score_kind = "num"
                              THEN envGate.score ELSE 0,
                              "judged"),
          status |-> "judged", score_bad |-> envGate.score_kind = "bad"]

(* Variants of the decision arithmetic: no stage multiplier, fatigue     *)
(* from the fourth shared story on, a strict threshold.                   *)
StageMultiplierFlat(stage) == 10

FatigueFactorLate(mem) == IF Len(mem.stories_shared) > 3 THEN 8 ELSE 10

(* Variant of the stage multiplier that is liberal from warming_up on. *)
StageMultiplierEager(stage) ==
    CASE stage = "new"        -> 7
      [] stage = "warming_up" -> 12
      [] stage = "familiar"   -> 12
      [] OTHER                -> 10

StageMultiplier(stage) ==
    CASE stage = "new"        -> 7
      [] stage = "warming_up" -> 10
      [] stage = "familiar"   -> 12
      [] OTHER                -> 10

FatigueFactor(mem) == IF Len(mem.stories_shared) >= 3 THEN 8 ELSE 10

ShareThreshold == 600000

(* confidence in units of 1/1000000 *)
AdjustedConfidence(match, mem) ==
    CombinedScore(match) * StageMultiplier(mem.relationship_stage)
        * FatigueFactor(mem)

DecisionAtStrict(adjusted_confidence) ==
    [should_share |-> adjusted_confidence > 600000,
     confidence |-> adjusted_confidence,
     reasoning |-> IF adjusted_confidence > 600000
                   THEN "Story sharing appropriate"
                   ELSE "Story sharing not recommended"]

DecisionAt(adjusted_confidence) ==
    [should_share |-> adjusted_confidence >= ShareThreshold,
     confidence |-> adjusted_confidence,
     reasoning |-> IF adjusted_confidence >= ShareThreshold
                   THEN "Story sharing appropriate"
                   ELSE "Story sharing not recommended"]

MakeSharingDecision(match, mem) == DecisionAt(AdjustedConfidence(match, mem))

(* Variant of the no-candidate decision that keeps a confidence. *)
NoStoriesDecisionConfident ==
    [should_share |-> FALSE, confidence |-> 500000, story_match |-> <<>>,
     reasoning |-> "No stories found above similarity threshold"]

NoStoriesDecision ==
    [should_share |-> FALSE, confidence |-> 0, story_match |-> <<>>,
     reasoning |-> "No stories found above similarity threshold"]

NoDecision ==
    [should_share |-> FALSE, confidence |-> 0, story_match |-> <<>>,
     reasoning |-> "none"]

(* Variant of the except clause that lets the exception out. *)
ShareOnExceptionRaised == [outcome |-> "raise", decision |-> NoDecision]

(* The except clause of should_share_story. *)
ShareOnException ==
    [outcome |-> "return",
     decision |-> [should_share |-> FALSE, confidence |-> 0,
                   story_match |-> <<>>,
                   reasoning |-> "Error in story evaluation"]]

(* The except clause of find_relevant_stories. *)
FindOnException == [outcome |-> "return", matches |-> <<>>]

ShareSearchThreshold == 600
ShareMaxCandidates == 3
FindSearchThreshold == 700

Trace(emb, search, cands) ==
    [embed |-> emb.status, vector |-> emb.vector, ecache |-> emb.cache,
     search |-> search, candidates |-> cands]

(* Variant of the result that hands out the judged match also when the   *)
(* decision is not to share.                                              *)
ShareResultWithMatch(ev, dec) ==
    IF ev.score_bad
    THEN ShareOnException @@ [gate |-> "judged", judged |-> <<ev.match>>]
    ELSE [outcome |-> "return", judged |-> <<ev.match>>,
          decision |-> [should_share |-> dec.should_share,
                        confidence |-> dec.confidence,
                        story_match |-> <<ev.match>>,
                        reasoning |-> dec.reasoning],
          gate |-> ev.status]

ShareResult(ev, dec) ==
    IF ev.score_bad
    THEN ShareOnException @@ [gate |-> "judged", judged |-> <<ev.match>>]
    ELSE [outcome |-> "return", judged |-> <<ev.match>>,
          decision |-> [should_share |-> dec.should_share,
                        confidence |-> dec.confidence,
                        story_match |-> IF dec.should_share
                                        THEN <<ev.match>> ELSE <<>>,
                        reasoning |-> dec.reasoning],
          gate |-> ev.status]

ShareJudged(ev, mem) ==
    ShareResult(ev, IF ev.score_bad THEN NoDecision
                    ELSE MakeSharingDecision(ev.match, mem))

ShareFromCandidates(mem, emb, search, cands, envGate) ==
    (IF cands = <<>>
     THEN [outcome |-> "return", decision |-> NoStoriesDecision,
           gate |-> "skipped", judged |-> <<>>]
     ELSE ShareJudged(EvaluateStorySharingAppropriateness(cands[1], envGate),
                      mem))
      @@ Trace(emb, search, cands)

ShareFromEmbedding(mem, emb, env, uc) ==
    IF emb.raised
    THEN ShareOnException @@ [gate |-> "skipped", judged |-> <<>>]
            @@ Trace(emb, "skipped", <<>>)
    ELSE ShareFromCandidates(mem, emb, env.search,
            VectorSimilaritySearch(emb.vector, mem.stories_shared,
                ShareMaxCandidates, ShareSearchThreshold, env.search, uc),
            env.gate)

ShouldShareStory(context, mem, ecache, env, uc) ==
    ShareFromEmbedding(mem,
        GenerateEmbedding(BuildEnhancedContext(context, mem), ecache,
                          env.embed),
        env, uc)

(* ranked: the whole list after the selection pass; matches: its head.   *)
(* The in-place boost and sort of the selection pass reach the cached    *)
(* list when the ranking handed out the list the cache holds.             *)
FindSelected(key, rank, sel) ==
    [outcome |-> "return", matches |-> sel.selected,
     judge |-> rank.status, judged |-> rank.matches, ranked |-> sel.all,
     jcache |-> IF rank.cached
                THEN [rank.cache EXCEPT ![key] = sel.all]
                ELSE rank.cache]

FindRanked(key, mem, max_stories, rank) ==
    FindSelected(key, rank,
                 ApplySelectionCriteria(rank.matches, mem, max_stories))

FindFromCandidates(context, mem, max_stories, jcache, emb, search, cands, envJudge) ==
    (IF cands = <<>>
     THEN [outcome |-> "return", matches |-> <<>>, judge |-> "skipped",
           judged |-> <<>>, ranked |-> <<>>, jcache |-> jcache]
     ELSE FindRanked(CacheKey(context, cands), mem, max_stories,
                     LlmJudgeRanking(context, cands, jcache, envJudge)))
      @@ Trace(emb, search, cands)

FindFromEmbedding(context, mem, max_stories, jcache, emb, env, uc) ==
    IF emb.raised
    THEN FindOnException
            @@ [judge |-> "skipped", judged |-> <<>>, ranked |-> <<>>,
                jcache |-> jcache]
            @@ Trace(emb, "skipped", <<>>)
    ELSE FindFromCandidates(context, mem, max_stories, jcache, emb,
            env.search,
            VectorSimilaritySearch(emb.vector, mem.stories_shared,
                max_stories * 2, FindSearchThreshold, env.search, uc),
            env.judge)

FindRelevantStories(context, mem, max_stories, ecache, jcache, env, uc) ==
    FindFromEmbedding(context, mem, max_stories, jcache,
        GenerateEmbedding(BuildEnhancedContext(context, mem), ecache,
                          env.embed),
        env, uc)

----------------------------------------------------------------------------
(* Inputs of the matcher calls *)

Contexts == {"ctxA", "ctxB"}
Stages == {"new", "warming_up", "familiar"}
InterestChoices == {<<>>, <<"work">>}

CountOfStage(stage) ==
    CASE stage = "new" -> 0
      [] stage = "warming_up" -> 6
      [] OTHER -> 21

Memory(sh, ui, st) ==
    [stories_shared |-> sh, conversation_themes |-> <<>>,
     user_interests |-> ui, relationship_stage |-> st,
     message_count |-> CountOfStage(st)]

(* Memories of the ranking scenario: what is excluded, what is boosted. *)
RankMemories ==
    {Memory(sh, ui, "warming_up") :
        sh \in {<<>>, <<"s1">>, <<"s1", "s3">>}, ui \in InterestChoices}

(* Memories of the decision scenario: every stage, 0 to 3 stories shared. *)
DecisionMemories ==
    {Memory(sh, <<>>, st) :
        sh \in {<<>>, <<"s1">>, <<"s1", "s3">>, <<"s1", "s3", "s4">>},
        st \in Stages}

EmbedOutcomes == {"fail"} \cup Vectors
SearchOutcomes == {"ok", "fail"}

JudgeNotAsked == [kind |-> "fail", pattern |-> "empty"]

JudgePatterns == {"inorder", "reversed"}

JudgeOutcomes ==
    {JudgeNotAsked, [kind |-> "garbage", pattern |-> "empty"]}
      \cup {[kind |-> "json", pattern |-> p] : p \in JudgePatterns}

Gate(kind, score_kind, score, hint) ==
    [kind |-> kind, score_kind |-> score_kind, score |-> score,
     hint |-> hint]

GateNotAsked == Gate("fail", "absent", 0, FALSE)

FewGateOutcomes == {GateNotAsked, Gate("json", "num", 900, TRUE)}

GateOutcomes ==
    {GateNotAsked, Gate("garbage", "absent", 0, FALSE),
     Gate("json", "absent", 0, TRUE), Gate("json", "bad", 0, TRUE)}
      \cup {Gate("json", "num", sc, TRUE) : sc \in {375, 610, 900, 1500}}
      \cup {Gate("json", "num", 900, FALSE)}

NoCall ==
    [op |-> "none", context |-> "ctxA",
     memory |-> Memory(<<>>, <<>>, "new"),
     max_stories |-> 0, outcome |-> "return", matches |-> <<>>,
     decision |-> NoDecision,
     text |-> BuildEnhancedContext("ctxA", Memory(<<>>, <<>>, "new")),
     embed |-> "none", vector |-> "none", search |-> "skipped",
     candidates |-> <<>>, judge |-> "skipped", judged |-> <<>>,
     gate |-> "skipped", cancelled |-> "none", on_failure |-> <<>>,
     ranked |-> <<>>, reply |-> <<>>, gate_outcome |-> <<>>, memory_out |-> Memory(<<>>, <<>>, "new")]

----------------------------------------------------------------------------
(* Matcher calls.  Of the remote outcomes the environment could choose,   *)
(* one that the call never consults is fixed to a single value.           *)

(* Variant in which the matcher itself marks the story it decided to     *)
(* share as shared.                                                       *)
MemoryMarkedShared(mem, story_match) ==
    [mem EXCEPT !.stories_shared =
        @ \o [i \in 1..Len(story_match) |-> story_match[i].story.story_id]]

(* The ChatMemory object of the caller after the call.  The matcher only  *)
(* reads its fields (lines 114-139, 165-187, 254-262, 289-290, 391-395,   *)
(* 469-470, 584); the list stories_shared is handed to the search, which  *)
(* puts it into the request and does not change it (line 209).  The match *)
(* to share is part of the return value only.                             *)
MemoryAfterCall(mem, story_match) == mem

(* What is kept of an earlier call: what it was given and what it       *)
(* decided.                                                               *)
Inputs(call) ==
    [op |-> call.op, memory |-> call.memory, judged |-> call.judged,
     decision |-> call.decision]

(* What the appropriateness judge did, if it was called. *)
GateOutcomeOf(status, envGate) ==
    IF status = "skipped" THEN <<>> ELSE <<envGate>>

(* The reply of the judge that _llm_judge_ranking read, if it read one. *)
ReplyRead(status, envJudge, n) ==
    IF status = "remote_ok" THEN <<JudgeReply(envJudge, n)>> ELSE <<>>

EmbedRaises(text, e) == text \notin DOMAIN embedding_cache /\ e = "fail"

CallFindRelevantStories(contexts, memories, judgeOutcomes) ==
    /\ calls < MaxCalls
    /\ \E context \in contexts, mem \in memories, e \in EmbedOutcomes :
         \E text \in {BuildEnhancedContext(context, mem)} :
         /\ text \in DOMAIN embedding_cache => e = "fail"
         /\ \E se \in SearchOutcomes, max_stories \in 1..MaxStoriesArg :
              /\ EmbedRaises(text, e) => se = "ok" /\ max_stories = 1
              /\ \E j \in judgeOutcomes :
                   \E r \in {FindRelevantStories(context, mem, max_stories,
                               embedding_cache, judge_cache,
                               [embed |-> e, search |-> se, judge |-> j],
                               used_count)} :
                       /\ r.judge \in {"skipped", "hit"} => j = JudgeNotAsked
                       /\ embedding_cache' = r.ecache
                       /\ judge_cache' = r.jcache
                       /\ last' = [op |-> "find", context |-> context,
                                   memory |-> mem,
                                   max_stories |-> max_stories,
                                   decision |-> NoDecision, text |-> text,
                                   gate |-> "skipped", cancelled |-> "none",
                                   on_failure |-> <<>>,
                                   reply |-> ReplyRead(r.judge, j,
                                                       Len(r.candidates)),
                                   gate_outcome |-> <<>>,
                                   memory_out |-> MemoryAfterCall(mem, <<>>)]
                                  @@ [f \in {"outcome", "matches", "embed",
                                             "vector", "search", "candidates",
                                             "judge", "judged", "ranked"} |->
                                          r[f]]
    /\ calls' = calls + 1
    /\ UNCHANGED <<prev, botVars, sideVars>>

CallShouldShareStory(contexts, memories, gateOutcomes, keep) ==
    /\ calls < MaxCalls
    /\ \E context \in contexts, mem \in memories, e \in EmbedOutcomes :
         \E text \in {BuildEnhancedContext(context, mem)} :
         /\ text \in DOMAIN embedding_cache => e = "fail"
         /\ \E se \in SearchOutcomes :
              /\ EmbedRaises(text, e) => se = "ok"
              /\ \E g \in gateOutcomes :
                   \E r \in {ShouldShareStory(context, mem, embedding_cache,
                               [embed |-> e, search |-> se, gate |-> g],
                               used_count)} :
                       /\ r.gate = "skipped" => g = GateNotAsked
                       /\ embedding_cache' = r.ecache
                       /\ last' = [op |-> "share", context |-> context,
                                   memory |-> mem, max_stories |-> 0,
                                   matches |-> <<>>, text |-> text,
                                   judge |-> "skipped", cancelled |-> "none",
                                   on_failure |-> <<>>, ranked |-> <<>>,
                                   reply |-> <<>>,
                                   gate_outcome |-> GateOutcomeOf(r.gate, g),
                                   memory_out |->
                                       MemoryAfterCall(mem,
                                           r.decision.story_match)]
                                  @@ [f \in {"outcome", "decision", "embed",
                                             "vector", "search", "candidates",
                                             "gate", "judged"} |-> r[f]]
    /\ prev' = IF keep /\ last.op = "share"
                     /\ last.memory.stories_shared = <<>>
                THEN Inputs(last) ELSE prev
    /\ calls' = calls + 1
    /\ UNCHANGED <<judge_cache, botVars, sideVars>>

----------------------------------------------------------------------------
(* Cancellation of the task that awaits a remote call of the matcher.     *)
(* The awaits of the embedding call (line 229) and of the judge call      *)
(* (line 435) are the points where asyncio raises CancelledError into     *)
(* find_relevant_stories; the vector search is a synchronous call and     *)
(* has no such point.                                                     *)

CancelPoints == {"embedding", "judge"}

(* Whether the clauses "except Exception" catch CancelledError depends on *)
(* the interpreter: it is an Exception up to Python 3.7 and a             *)
(* BaseException from 3.8 on.  Nothing in the repository fixes which.     *)
CancelledErrorIsException == BOOLEAN

(* What of a call the caller and the caches see. *)
Effect(r) ==
    [outcome |-> r.outcome, matches |-> r.matches, ecache |-> r.ecache,
     jcache |-> r.jcache]

(* on_failure: the result of the same call with the provider failing at   *)
(* the point of the cancellation.  Caught, the CancelledError runs the    *)
(* handlers of a provider error; not caught, it leaves the coroutine,     *)
(* after whatever was stored before the cancelled await.                  *)
OnCancellation(on_failure, caught) ==
    IF caught THEN on_failure
    ELSE [on_failure EXCEPT !.outcome = "raise", !.matches = <<>>,
                            !.judged = <<>>, !.ranked = <<>>]

CancelFindRelevantStories ==
    /\ calls < MaxCalls
    /\ \E context \in Contexts, mem \in RankMemories, at \in CancelPoints :
         \E text \in {BuildEnhancedContext(context, mem)},
            e \in EmbedOutcomes, se \in SearchOutcomes,
            max_stories \in 1..MaxStoriesArg :
         /\ text \in DOMAIN embedding_cache => e = "fail"
         /\ at = "embedding" => EmbedRaises(text, e)
         /\ EmbedRaises(text, e) => se = "ok" /\ max_stories = 1
         /\ \E f \in {FindRelevantStories(context, mem, max_stories,
                        embedding_cache, judge_cache,
                        [embed |-> e, search |-> se, judge |-> JudgeNotAsked],
                        used_count)} :
              /\ at = "embedding" => f.embed = "fail"
              /\ at = "judge" => f.judge = "remote_fail"
              /\ \E caught \in CancelledErrorIsException :
                   \E r \in {OnCancellation(f, caught)} :
                       /\ embedding_cache' = r.ecache
                       /\ judge_cache' = r.jcache
                       /\ last' = [op |-> "find", context |-> context,
                                   memory |-> mem,
                                   max_stories |-> max_stories,
                                   decision |-> NoDecision, text |-> text,
                                   gate |-> "skipped", cancelled |-> at,
                                   on_failure |-> <<Effect(f)>>,
                                   reply |-> <<>>, gate_outcome |-> <<>>,
                                   memory_out |-> MemoryAfterCall(mem, <<>>)]
                                  @@ [g \in {"outcome", "matches", "embed",
                                             "vector", "search", "candidates",
                                             "judge", "judged", "ranked"} |->
                                          r[g]]
    /\ calls' = calls + 1
    /\ UNCHANGED <<prev, botVars, sideVars>>

----------------------------------------------------------------------------
(* Chat memory: storage and the bot's per-turn update *)

DefaultMemory == Memory(<<>>, <<>>, "new")

(* load_chat_memory: the stored row if the query succeeds and finds one,  *)
(* a new memory otherwise, also when the query fails.                      *)
LoadChatMemory(db, envLoad) ==
    IF envLoad = "ok" /\ db # <<>> THEN db[1] ELSE DefaultMemory

(* save_chat_memory: an upsert; a failure is logged and dropped. *)
SaveChatMemory(db, mem, envSave) ==
    IF envSave = "ok" THEN <<mem>> ELSE db

ThemeKeywords == <<"family", "work", "travel", "learning", "food",
                   "technology", "music", "sports">>

RECURSIVE AppendThemes(_, _, _)
AppendThemes(themes, found, i) ==
    IF i > Len(ThemeKeywords) THEN themes
    ELSE AppendThemes(
            IF ThemeKeywords[i] \in found /\ ThemeKeywords[i] \notin Range(themes)
            THEN Append(themes, ThemeKeywords[i]) ELSE themes,
            found, i + 1)

(* Variant of the stage rule with the upper boundary one message early. *)
NextStageInclusive(stage, message_count) ==
    IF message_count >= 20 THEN "familiar"
    ELSE IF message_count > 5 THEN "warming_up"
    ELSE stage

NextStage(stage, message_count) ==
    IF message_count > 20 THEN "familiar"
    ELSE IF message_count > 5 THEN "warming_up"
    ELSE stage

(* update_chat_memory, up to the save; found: the theme keywords that     *)
(* occur in the text of the turn.                                          *)
UpdateChatMemory(mem, found) ==
    LET count == mem.message_count + 1 IN
    [mem EXCEPT !.message_count = count,
                !.conversation_themes = AppendThemes(@, found, 1),
                !.relationship_stage = NextStage(@, count)]

(* update_story_usage sends the text 'used_count + 1' as the new value of *)
(* the integer column; the store refuses it, the error is logged and      *)
(* dropped, and the stored count stays.                                    *)
UpdateStoryUsage(uc, story_id) == uc

StageRank(stage) ==
    CASE stage = "new" -> 0
      [] stage = "warming_up" -> 1
      [] stage = "familiar" -> 2
      [] OTHER -> 3

----------------------------------------------------------------------------
(* The bot: construction, initialization, turns *)

NoTurn ==
    [kind |-> "none", loaded |-> "none", suggested |-> <<>>,
     used |-> FALSE, saved |-> FALSE, stage |-> "new",
     detected |-> FALSE]

KeywordFinds == {{}, {"work"}}

BotVectors == {"fail", "v2"}

BotGateOutcomes == {GateNotAsked, Gate("json", "num", 0, FALSE)}

(* The rows of this bot that the lookup returns: none when it fails. *)
GetExistingEmbeddings(table, envLookup) ==
    IF envLookup = "fail" THEN <<>> ELSE table

(* The stories whose id is not among the rows the lookup returned. *)
StoriesToEmbed(stories, existing) ==
    SelectSeq(stories, LAMBDA s : s \notin Range(existing))

(* The batch insert: the table takes the rows, or the insert raises. *)
InsertEmbeddings(table, to_embed, env) ==
    IF env.embed = "fail" \/ env.insert = "raise"
    THEN [returned |-> FALSE, table |-> table]
    ELSE [returned |-> TRUE, table |-> table \o to_embed]

(* initialize_story_embeddings on a matcher that was just constructed:    *)
(* every story to embed takes a remote embedding call, and the first that *)
(* fails ends the run before the insert.  env.insert is what the table    *)
(* does with the batch; its constraints are not part of the repository.   *)
InitializeStoryEmbeddingsFor(table, to_embed, env) ==
    IF to_embed = <<>>
    THEN [returned |-> TRUE, table |-> table]
    ELSE InsertEmbeddings(table, to_embed, env)

InitializeStoryEmbeddings(stories, table, env) ==
    InitializeStoryEmbeddingsFor(table,
        StoriesToEmbed(stories, GetExistingEmbeddings(table, env.lookup)),
        env)

EmbeddingEnvs ==
    [lookup : {"ok", "fail"}, embed : {"ok", "fail"}, insert : {"ok", "raise"}]

(* The stories of the bot as load_stories returns them. *)
BotStoryList == <<"s1", "s2", "s3", "s4">>

(* initialize(): on success a new StoryMatcher, with empty caches, the    *)
(* embeddings of the bot's stories initialized whatever that call returns *)
(* and is_initialized set; on failure (inactive bot, an exception) False  *)
(* is returned and nothing else changes.  reload_configuration() is a     *)
(* call of initialize().  The texts of the stories that the new matcher   *)
(* embeds are keys of its embedding cache that no conversation context    *)
(* equals; the cache of the model holds the context keys.                 *)
Initialize ==
    /\ \E ok \in BOOLEAN :
         IF ok
         THEN /\ is_initialized' = TRUE
              /\ embedding_cache' = EmptyCache
              /\ judge_cache' = EmptyCache
              /\ init_result' = "True"
              /\ \E env \in EmbeddingEnvs :
                    story_embeddings' =
                        InitializeStoryEmbeddings(BotStoryList,
                            story_embeddings, env).table
              /\ Len(story_embeddings') <= MaxRecords
         ELSE /\ UNCHANGED <<is_initialized, embedding_cache, judge_cache,
                             story_embeddings>>
              /\ init_result' = "False"
    /\ UNCHANGED <<last, prev, calls, chat_memories, db_memory, used_count,
                   turn, scored, queue, running>>

(* The process ends and a new DigitalTwinBot is constructed; the tables   *)
(* of the store stay.                                                      *)
Restart ==
    /\ chat_memories' = <<>>
    /\ is_initialized' = FALSE
    /\ embedding_cache' = EmptyCache
    /\ judge_cache' = EmptyCache
    /\ init_result' = "none"
    /\ UNCHANGED <<last, prev, calls, db_memory, used_count, turn, scored,
                   queue, running, story_embeddings>>

(* generate_response before initialization: the fixed placeholder. *)
TurnNotInitialized ==
    /\ ~is_initialized
    /\ turn' = [NoTurn EXCEPT !.kind = "placeholder", !.stage = turn.stage]
    /\ UNCHANGED <<matcherVars, chat_memories, db_memory, used_count,
                   is_initialized, sideVars>>

(* Variant that takes a suggested story as used, whatever the reply. *)
StoryWasUsedIfSuggested(suggested, detected) == suggested # <<>>

(* The two conditions around the usage confirmation: a story was         *)
(* suggested (should_share and story_match), and one of the key phrases   *)
(* of its text occurs in the reply.                                       *)
StoryWasUsed(suggested, detected) == suggested # <<>> /\ detected

(* The turn after the reply was generated: usage detection, memory      *)
(* update, save.                                                           *)
FinishTurn(mem0, loaded, suggested) ==
    \E detected \in BOOLEAN, found \in KeywordFinds,
       envSave \in {"ok", "fail"} :
      /\ suggested = <<>> => ~detected
      /\ \E used \in {StoryWasUsed(suggested, detected)} :
         \E mem2 \in {UpdateChatMemory(
                        IF used
                        THEN [mem0 EXCEPT !.stories_shared =
                                             Append(@, suggested[1])]
                        ELSE mem0,
                        found)} :
           /\ chat_memories' = <<mem2>>
           /\ db_memory' = SaveChatMemory(db_memory, mem2, envSave)
           /\ used_count' = IF used
                            THEN UpdateStoryUsage(used_count, suggested[1])
                            ELSE used_count
           /\ turn' = [kind |-> "reply", loaded |-> loaded,
                       suggested |-> suggested, used |-> used,
                       saved |-> envSave = "ok",
                       stage |-> mem2.relationship_stage,
                       detected |-> detected]

(* Variant of the failed turn that still counts the message. *)
FailTurnCounted(mem0, loaded, suggested) ==
    /\ chat_memories' = <<[mem0 EXCEPT !.message_count = @ + 1]>>
    /\ turn' = [kind |-> "error", loaded |-> loaded,
                suggested |-> suggested, used |-> FALSE, saved |-> FALSE,
                stage |-> mem0.relationship_stage, detected |-> FALSE]
    /\ UNCHANGED <<db_memory, used_count>>

(* The reply call failed: the except clause of generate_response. *)
FailTurn(mem0, loaded, suggested) ==
    /\ chat_memories' = <<mem0>>
    /\ turn' = [kind |-> "error", loaded |-> loaded,
                suggested |-> suggested, used |-> FALSE, saved |-> FALSE,
                stage |-> mem0.relationship_stage, detected |-> FALSE]
    /\ UNCHANGED <<db_memory, used_count>>

HowLoaded(envLoad) ==
    IF chat_memories # <<>> THEN "cached"
    ELSE IF envLoad = "fail" THEN "failed"
    ELSE IF db_memory = <<>> THEN "absent"
    ELSE "row"

(* get_chat_memory: the memory the bot holds, loaded on first use. *)
GetChatMemory(envLoad) ==
    IF chat_memories # <<>> THEN chat_memories[1]
    ELSE LoadChatMemory(db_memory, envLoad)

Suggested(decision) ==
    IF decision.should_share /\ decision.story_match # <<>>
    THEN <<decision.story_match[1].story.story_id>> ELSE <<>>

(* generate_response of one message of the chat. *)
Turn ==
    /\ is_initialized
    /\ \E envLoad \in {"ok", "fail"}, e \in BotVectors :
         \E mem0 \in {GetChatMemory(envLoad)} :
         \E text \in {BuildEnhancedContext("ctxA", mem0)} :
         /\ chat_memories # <<>> => envLoad = "ok"
         /\ mem0.message_count < MaxMsgs
         /\ text \in DOMAIN embedding_cache => e = "fail"
         /\ \E se \in SearchOutcomes, g \in BotGateOutcomes :
              /\ EmbedRaises(text, e) => se = "ok"
              /\ \E d \in {ShouldShareStory("ctxA", mem0, embedding_cache,
                              [embed |-> e, search |-> se, gate |-> g],
                              used_count)} :
                   /\ d.gate = "skipped" => g = GateNotAsked
                   /\ embedding_cache' = d.ecache
                   /\ \/ FailTurn(mem0, HowLoaded(envLoad),
                                  Suggested(d.decision))
                      \/ FinishTurn(mem0, HowLoaded(envLoad),
                                    Suggested(d.decision))
    /\ UNCHANGED <<judge_cache, last, prev, calls, is_initialized, sideVars>>

Init ==
    /\ embedding_cache = EmptyCache
    /\ judge_cache = EmptyCache
    /\ last = NoCall
    /\ prev = Inputs(NoCall)
    /\ calls = 0
    /\ chat_memories = <<>>
    /\ db_memory = <<>>
    /\ used_count = InitUsedCount
    /\ is_initialized = FALSE
    /\ turn = NoTurn
    /\ scored = NoScore
    /\ init_result = "none"
    /\ story_embeddings = <<>>
    /\ queue = 0
    /\ running = <<>>

(* Ranking and decision calls sharing the caches. *)
Next ==
    \/ CallFindRelevantStories(Contexts, RankMemories, JudgeOutcomes)
    \/ CallShouldShareStory({"ctxA"},
            {m \in RankMemories : m.user_interests = <<>>},
            FewGateOutcomes, FALSE)

Spec == Init /\ [][Next]_vars

(* Decision calls over every stage and fatigue level. *)
DecisionNext ==
    CallShouldShareStory({"ctxA"}, DecisionMemories, GateOutcomes, TRUE)

DecisionSpec == Init /\ [][DecisionNext]_vars

(* The bot serving one chat, across restarts of the process. *)
BotNext == Initialize \/ Restart \/ TurnNotInitialized \/ Turn

BotSpec == Init /\ [][BotNext]_vars

----------------------------------------------------------------------------
(* The dispatcher of the chat's updates.  The application is built with *)
(* the defaults of the library: updates are handled one after the other,  *)
(* each handler awaited to its end before the next update is taken.  A    *)
(* turn is suspended at its remote calls, after it has read the memory;   *)
(* the memory it holds is the object chat_memories holds.                 *)

(* Variant of the dispatcher that handles updates concurrently. *)
MayDispatchConcurrently == TRUE

MayDispatch == running = <<>>

ReceiveUpdate ==
    /\ queue < MaxQueued
    /\ queue' = queue + 1
    /\ UNCHANGED <<matcherVars, botVars, scored, running, init_result,
                   story_embeddings>>

(* handle_message up to the first remote call of generate_response. *)
StartTurn ==
    /\ is_initialized
    /\ queue > 0
    /\ MayDispatch
    /\ \E envLoad \in {"ok", "fail"} :
         /\ chat_memories # <<>> => envLoad = "ok"
         /\ \E mem0 \in {GetChatMemory(envLoad)} :
              /\ mem0.message_count + Len(running) < MaxDispatched
              /\ chat_memories' = <<mem0>>
              /\ running' = Append(running,
                                   [memory_read |-> mem0,
                                    loaded |-> HowLoaded(envLoad)])
    /\ queue' = queue - 1
    /\ UNCHANGED <<matcherVars, db_memory, used_count, is_initialized, turn,
                   scored, init_result, story_embeddings>>

WithoutTurn(i) ==
    SubSeq(running, 1, i - 1) \o SubSeq(running, i + 1, Len(running))

(* The rest of generate_response, from the decision to the write-back. *)
EndTurn ==
    /\ running # <<>>
    /\ \E i \in 1..Len(running), e \in BotVectors :
         \E mem0 \in {chat_memories[1]} :
         \E text \in {BuildEnhancedContext("ctxA", mem0)} :
         /\ text \in DOMAIN embedding_cache => e = "fail"
         /\ \E se \in SearchOutcomes, g \in BotGateOutcomes :
              /\ EmbedRaises(text, e) => se = "ok"
              /\ \E d \in {ShouldShareStory("ctxA", mem0, embedding_cache,
                              [embed |-> e, search |-> se, gate |-> g],
                              used_count)} :
                   /\ d.gate = "skipped" => g = GateNotAsked
                   /\ embedding_cache' = d.ecache
                   /\ \/ FailTurn(mem0, running[i].loaded,
                                  Suggested(d.decision))
                      \/ FinishTurn(mem0, running[i].loaded,
                                    Suggested(d.decision))
         /\ running' = WithoutTurn(i)
    /\ UNCHANGED <<judge_cache, last, prev, calls, is_initialized, scored,
                   queue, init_result, story_embeddings>>

DispatchNext == Initialize \/ ReceiveUpdate \/ StartTurn \/ EndTurn

DispatchSpec == Init /\ [][DispatchNext]_vars

(* Ranking calls of which some are cancelled at a remote call. *)
CancelNext ==
    \/ CallFindRelevantStories(Contexts, RankMemories, JudgeOutcomes)
    \/ CancelFindRelevantStories

CancelSpec == Init /\ [][CancelNext]_vars

----------------------------------------------------------------------------
(* Ranking calls with one candidate left: the story of themes work and  *)
(* stress, similarity 0.85, never used; the judge replies in every way.  *)

ScenarioMemories ==
    {Memory(<<"s3", "s4">>, ui, "warming_up") :
        ui \in {<<>>, <<"career">>, <<"work">>, <<"Work", "stress">>}}

AllJudgeOutcomes ==
    {JudgeNotAsked, [kind |-> "garbage", pattern |-> "empty"]}
      \cup {[kind |-> "json", pattern |-> p] :
                p \in {"inorder", "reversed", "dup", "oob", "bad", "over",
                       "absent", "empty"}}

ScenarioNext ==
    CallFindRelevantStories({"ctxA"}, ScenarioMemories, AllJudgeOutcomes)

ScenarioSpec == Init /\ [][ScenarioNext]_vars

----------------------------------------------------------------------------
(* combined_score read off matches of any score fields, values outside  *)
(* [0,1] and negative distances included.                                 *)

SimilarityValues == {0, 250, 500, 1000, 1150}
JudgeScoreValues == {0, 400, 900, 1000, 1500}
DistanceValues == {-100, 0, 150, 1000, 2000}

ScoreInit ==
    /\ embedding_cache = EmptyCache
    /\ judge_cache = EmptyCache
    /\ last = NoCall
    /\ prev = Inputs(NoCall)
    /\ calls = 0
    /\ chat_memories = <<>>
    /\ db_memory = <<>>
    /\ used_count = InitUsedCount
    /\ is_initialized = FALSE
    /\ turn = NoTurn
    /\ scored \in {ScoreFields(vs, js, d) : vs \in SimilarityValues,
                      js \in JudgeScoreValues, d \in DistanceValues}
    /\ queue = 0
    /\ running = <<>>
    /\ init_result = "none"
    /\ story_embeddings = <<>>

ReadCombinedScore ==
    /\ scored.combined = <<>>
    /\ scored' = [scored EXCEPT !.combined = <<CombinedScore(scored)>>]
    /\ UNCHANGED <<matcherVars, botVars, queue, running, init_result,
                   story_embeddings>>

ScoreSpec == ScoreInit /\ [][ReadCombinedScore]_vars

----------------------------------------------------------------------------
(* initialize_story_embeddings called on a newly constructed matcher with *)
(* a list of stories of the bot.                                          *)

StoryLists ==
    {<<"s1">>, <<"s2">>, <<"s3">>, <<"s1", "s2">>, <<"s1", "s3">>,
     <<"s2", "s3">>, <<"s1", "s2", "s3">>}

RunInitializeEmbeddings ==
    /\ \E stories \in StoryLists, env \in EmbeddingEnvs :
         story_embeddings' =
             InitializeStoryEmbeddings(stories, story_embeddings, env).table
    /\ Len(story_embeddings') <= MaxRecords
    /\ UNCHANGED <<matcherVars, botVars, scored, queue, running, init_result>>

EmbeddingSpec == Init /\ [][RunInitializeEmbeddings]_vars

----------------------------------------------------------------------------
(* Properties *)

SharedIds == Range(last.memory.stories_shared)

(* C1: no StoryMatch that find_relevant_stories returns, and no          *)
(* story_match that should_share_story returns, has the id of a story in *)
(* the stories_shared of the memory the call was given; this holds also  *)
(* when the ranking was served from the judge cache.                      *)
C1_SharedStoriesNeverReturned ==
    /\ \A i \in 1..Len(last.matches) :
         last.matches[i].story.story_id \notin SharedIds
    /\ \A i \in 1..Len(last.decision.story_match) :
         last.decision.story_match[i].story.story_id \notin SharedIds

C1_CachedRankingWithSharedStories ==
    /\ last.op = "find"
    /\ last.judge = "hit"
    /\ last.memory.stories_shared # <<>>
    /\ last.matches # <<>>

(* C2: when the remote call of the bulk judge fails, find_relevant_stories *)
(* raises nothing and returns min(max_stories, number of candidates)       *)
(* matches; the ranking it selects from scores every candidate with its    *)
(* vector similarity, in the order of the candidates, and every match      *)
(* carries the fallback marker as its reasoning.                            *)
C2_JudgeFailureFallsBack ==
    (last.op = "find" /\ last.judge = "remote_fail") =>
        /\ last.outcome = "return"
        /\ Len(last.matches) = Min(last.max_stories, Len(last.candidates))
        /\ Len(last.judged) = Len(last.candidates)
        /\ \A i \in 1..Len(last.judged) :
             /\ last.judged[i].story.story_id = last.candidates[i].story_id
             /\ last.judged[i].llm_judge_score = last.candidates[i].similarity
             /\ last.judged[i].vector_similarity
                  = last.candidates[i].similarity
             /\ last.judged[i].reasoning = FallbackMarker
        /\ \A i \in 1..Len(last.matches) :
             /\ last.matches[i].reasoning = FallbackMarker
             /\ \E k \in 1..Len(last.candidates) :
                  /\ last.candidates[k].story_id
                       = last.matches[i].story.story_id
                  /\ last.matches[i].llm_judge_score
                       >= last.candidates[k].similarity
                  /\ last.memory.user_interests = <<>> =>
                       last.matches[i].llm_judge_score
                         = last.candidates[k].similarity

C2_FallbackTruncated ==
    /\ last.op = "find"
    /\ last.judge = "remote_fail"
    /\ Len(last.candidates) > last.max_stories
    /\ Len(last.matches) = last.max_stories

(* C3: whatever remote call fails (embedding, vector search, judge,      *)
(* gate), both operations return normally; when the embedding call fails *)
(* find_relevant_stories returns the empty list and should_share_story   *)
(* returns should_share False, confidence 0, no story_match and the      *)
(* reasoning that tells of the error.                                     *)
C3_RemoteFailuresAreAbsorbed ==
    /\ last.outcome = "return"
    /\ (last.op = "find" /\ last.embed = "fail") => last.matches = <<>>
    /\ (last.op = "share" /\ last.embed = "fail") =>
         /\ ~last.decision.should_share
         /\ last.decision.confidence = 0
         /\ last.decision.story_match = <<>>
         /\ last.decision.reasoning = "Error in story evaluation"

C3_DecisionAfterEmbeddingFailure ==
    /\ last.op = "share"
    /\ last.embed = "fail"
    /\ last.outcome = "return"

(* C4: on every return path of should_share_story, should_share is True *)
(* exactly when the returned confidence is at least 0.6.                 *)
C4_SharesExactlyAtThreshold ==
    last.op = "share" =>
        (last.decision.should_share <=> last.decision.confidence >= 600000)

C4_SharedAtTheThreshold ==
    /\ last.op = "share"
    /\ last.decision.should_share
    /\ last.decision.confidence = 600000

Decided ==
    /\ last.op = "share"
    /\ last.judged # <<>>
    /\ last.decision.reasoning # "Error in story evaluation"

(* C5: with fewer than three stories shared, the confidence of the      *)
(* decision is the combined score of the judged match times 0.7 for      *)
(* stage new, 1.0 for warming_up and 1.2 for familiar; a combined score  *)
(* of 0.61 gives 0.427 and no sharing for new, 0.732 and sharing for     *)
(* familiar.                                                              *)
C5_StageScalesConfidence ==
    (Decided /\ Len(last.memory.stories_shared) < 3) =>
        /\ last.memory.relationship_stage = "new" =>
             last.decision.confidence = CombinedScore(last.judged[1]) * 70
        /\ last.memory.relationship_stage = "warming_up" =>
             last.decision.confidence = CombinedScore(last.judged[1]) * 100
        /\ last.memory.relationship_stage = "familiar" =>
             last.decision.confidence = CombinedScore(last.judged[1]) * 120
        /\ (CombinedScore(last.judged[1]) = 6100
              /\ last.memory.relationship_stage = "new") =>
             /\ last.decision.confidence = 427000
             /\ ~last.decision.should_share
        /\ (CombinedScore(last.judged[1]) = 6100
              /\ last.memory.relationship_stage = "familiar") =>
             /\ last.decision.confidence = 732000
             /\ last.decision.should_share
             /\ last.decision.story_match = last.judged

C5_FamiliarSharesAtCombined061 ==
    /\ Decided
    /\ Len(last.memory.stories_shared) < 3
    /\ CombinedScore(last.judged[1]) = 6100
    /\ last.memory.relationship_stage = "familiar"
    /\ last.decision.should_share

(* Two decisions on the same judged match at the same stage, the        *)
(* earlier with no story shared yet.                                      *)
SameMatchAfterNoneShared ==
    /\ Decided
    /\ prev.op = "share"
    /\ prev.decision.reasoning # "Error in story evaluation"
    /\ prev.judged = last.judged
    /\ prev.memory.relationship_stage = last.memory.relationship_stage
    /\ Len(prev.memory.stories_shared) = 0

(* C6: for the same judged match and stage, the confidence with three   *)
(* or more stories shared is exactly 0.8 times the confidence with none  *)
(* shared, and with one or two shared it equals the confidence with none.*)
C6_FatigueFromThirdSharedStory ==
    SameMatchAfterNoneShared =>
        /\ Len(last.memory.stories_shared) >= 3 =>
             last.decision.confidence * 10 = prev.decision.confidence * 8
        /\ Len(last.memory.stories_shared) < 3 =>
             last.decision.confidence = prev.decision.confidence

C6_PenaltyAfterThreeShared ==
    /\ SameMatchAfterNoneShared
    /\ Len(last.memory.stories_shared) = 3
    /\ prev.decision.confidence > 0

(* C7: across the turns of one chat, turns whose load or save of the    *)
(* chat memory fails included, the relationship stage never moves        *)
(* backward and moves forward one stage at a time.                       *)
C7_StageOnlyMovesForward ==
    [][/\ StageRank(turn'.stage) >= StageRank(turn.stage)
       /\ StageRank(turn'.stage) <= StageRank(turn.stage) + 1]_vars

StageOfCount(message_count) ==
    IF message_count > 20 THEN "familiar"
    ELSE IF message_count > 5 THEN "warming_up"
    ELSE "new"

C9_OneRemoteEmbeddingPerText ==
    [][calls' = calls + 1 =>
         /\ last'.text \in DOMAIN embedding_cache =>
              /\ last'.embed = "hit"
              /\ last'.vector = embedding_cache[last'.text]
              /\ embedding_cache' = embedding_cache
         /\ last'.text \notin DOMAIN embedding_cache =>
              last'.embed \in {"ok", "fail"}
         /\ last'.embed = "ok" =>
              /\ last'.text \in DOMAIN embedding_cache'
              /\ embedding_cache'[last'.text] = last'.vector
              /\ \A t \in DOMAIN embedding_cache :
                   /\ t \in DOMAIN embedding_cache'
                   /\ embedding_cache'[t] = embedding_cache[t]]_vars

C9_SecondCallHitsTheCache ==
    /\ calls = 2
    /\ last.embed = "hit"
    /\ Cardinality(DOMAIN embedding_cache) = 1

(* C10: when the remote embedding call fails, no vector comes back (the *)
(* call neither searches nor ranks) and the cache stays as it was; the   *)
(* cache gains an entry only by a successful remote call, and then       *)
(* exactly the entry of that text.                                        *)
C10_EmbeddingFailurePropagates ==
    [][calls' = calls + 1 =>
         /\ last'.embed = "fail" =>
              /\ last'.vector = "none"
              /\ last'.search = "skipped"
              /\ last'.candidates = <<>>
              /\ embedding_cache' = embedding_cache
         /\ embedding_cache' # embedding_cache =>
              /\ last'.embed = "ok"
              /\ last'.text \notin DOMAIN embedding_cache
              /\ DOMAIN embedding_cache'
                   = DOMAIN embedding_cache \cup {last'.text}]_vars

C10_FailureKeepsEarlierEntry ==
    /\ last.embed = "fail"
    /\ last.vector = "none"
    /\ embedding_cache # EmptyCache

(* C11: for a match whose vector_similarity and llm_judge_score are in  *)
(* [0,1] and whose distance is not negative, combined_score is            *)
(* 0.5 vector_similarity + 0.4 llm_judge_score + 0.1 (1 - min(distance,   *)
(* 1)) and lies in [0,1].                                                  *)
C11_CombinedScoreWithinUnitInterval ==
    (/\ scored.combined # <<>>
     /\ scored.vector_similarity \in 0..1000
     /\ scored.llm_judge_score \in 0..1000
     /\ scored.distance >= 0) =>
        /\ scored.combined[1] >= 0
        /\ scored.combined[1] <= 10000
        /\ scored.combined[1]
             = 5 * scored.vector_similarity + 4 * scored.llm_judge_score
                 + (IF scored.distance >= 1000 THEN 0
                    ELSE 1000 - scored.distance)

C11_FullScoreReached ==
    /\ scored.vector_similarity = 1000
    /\ scored.llm_judge_score = 1000
    /\ scored.distance = 0
    /\ scored.combined = <<10000>>

(* C12: every candidate the search hands on, every StoryMatch that      *)
(* find_relevant_stories returns and the story_match of every decision    *)
(* is a story of the matcher's own bot.                                    *)
C12_OnlyStoriesOfTheOwnBot ==
    /\ \A i \in 1..Len(last.candidates) : last.candidates[i].bot_id = BotId
    /\ \A i \in 1..Len(last.matches) : last.matches[i].story.bot_id = BotId
    /\ \A i \in 1..Len(last.decision.story_match) :
         last.decision.story_match[i].story.bot_id = BotId

C12_NearerStoryOfAnotherBotLeftOut ==
    /\ last.op = "find"
    /\ last.vector = "v1"
    /\ last.matches # <<>>
    /\ StoryBot("x1") # BotId
    /\ \A i \in 1..Len(last.candidates) :
         DistOf("v1", "x1") < last.candidates[i].distance

(* The end-to-end scenario: one candidate, of themes work and stress,   *)
(* similarity 0.85, never used, which the judge newly scored 0.9.         *)
EndToEndScenario ==
    /\ last.op = "find"
    /\ last.judge = "remote_ok"
    /\ Len(last.candidates) = 1
    /\ last.candidates[1].themes = <<"work", "stress">>
    /\ last.candidates[1].similarity = 850
    /\ last.candidates[1].used_count = 0
    /\ Len(last.judged) = 1
    /\ last.judged[1].llm_judge_score = 900

(* C13, as stated: in the end-to-end scenario with user_interests       *)
(* [career] the story comes back as top match with vector_similarity     *)
(* 0.95, llm_judge_score 1.0 and the combined_score of those values.      *)
C13_CareerInterestBoostsToOne ==
    (EndToEndScenario /\ last.memory.user_interests = <<"career">>) =>
        /\ Len(last.matches) = 1
        /\ last.matches[1].story.story_id = last.candidates[1].story_id
        /\ last.matches[1].vector_similarity = 950
        /\ last.matches[1].llm_judge_score = 1000
        /\ CombinedScore(last.matches[1]) = 9600

(* C13, amended: in the end-to-end scenario the story comes back as top *)
(* match with vector_similarity 0.95; with user_interests [career], which *)
(* is no theme of the story, llm_judge_score stays 0.9 and combined_score *)
(* is 0.92; with an interest that is a theme of the story (work)          *)
(* llm_judge_score is 1.0 and combined_score 0.96, and two such interests *)
(* are capped at 1.0 as well.                                              *)
C13_OnlyThemeInterestsBoost ==
    EndToEndScenario =>
        /\ Len(last.matches) = 1
        /\ last.matches[1].story.story_id = last.candidates[1].story_id
        /\ last.matches[1].vector_similarity = 950
        /\ last.memory.user_interests \in {<<>>, <<"career">>} =>
             /\ last.matches[1].llm_judge_score = 900
             /\ CombinedScore(last.matches[1]) = 9200
        /\ last.memory.user_interests \in {<<"work">>, <<"Work", "stress">>} =>
             /\ last.matches[1].llm_judge_score = 1000
             /\ CombinedScore(last.matches[1]) = 9600

C13_CareerLeavesJudgeScore ==
    /\ EndToEndScenario
    /\ last.memory.user_interests = <<"career">>
    /\ Len(last.matches) = 1
    /\ last.matches[1].llm_judge_score = 900

(* The ids in stories_shared of a held or stored memory (a list of no   *)
(* or one memory).                                                         *)
SharedOf(memories) ==
    IF memories = <<>> THEN {} ELSE Range(memories[1].stories_shared)

NoDuplicateShared(memories) ==
    \A i \in 1..Len(memories) :
        \A j, k \in 1..Len(memories[i].stories_shared) :
            memories[i].stories_shared[j] = memories[i].stories_shared[k]
                => j = k

(* C14: across the turns of a chat stories_shared holds no id twice and *)
(* only grows: no id leaves the memory the bot holds, none leaves the     *)
(* stored record.                                                          *)
C14_SharedStoriesOnlyGrow ==
    [][/\ NoDuplicateShared(chat_memories')
       /\ NoDuplicateShared(db_memory')
       /\ SharedOf(db_memory) \subseteq SharedOf(db_memory')
       /\ (chat_memories # <<>> /\ chat_memories' # <<>>) =>
            SharedOf(chat_memories) \subseteq SharedOf(chat_memories')]_vars

(* C15: the stored used_count of a story never decreases, changes only *)
(* in a turn whose reply was found to use the story, and every such turn  *)
(* makes it exactly one greater.                                           *)
C15_UsedCountCountsConfirmedUses ==
    [][/\ \A s \in AllStories : used_count'[s] >= used_count[s]
       /\ used_count' # used_count =>
            (turn'.used /\ chat_memories' # chat_memories)
       /\ (turn'.used /\ chat_memories' # chat_memories
              /\ chat_memories' # <<>>) =>
            used_count'[turn'.suggested[1]]
              = used_count[turn'.suggested[1]] + 1]_vars

(* C16: within the chat at most one turn is in progress; the memory a  *)
(* turn in progress has read is the memory the bot holds until the turn   *)
(* ends, and it is the record the turn before wrote back, so no turn      *)
(* reads before the turn before it is complete and no update of           *)
(* stories_shared, conversation_themes or message_count is lost.          *)
C16_TurnsOfAChatDoNotInterleave ==
    /\ Len(running) <= 1
    /\ \A i \in 1..Len(running) :
         /\ chat_memories = <<running[i].memory_read>>
         /\ (turn.kind = "reply" /\ turn.saved) =>
              db_memory = <<running[i].memory_read>>
         /\ turn.kind = "reply" =>
              running[i].memory_read.relationship_stage = turn.stage

C16_NextUpdateWaitsForTheTurn ==
    /\ Len(running) = 1
    /\ queue > 0
    /\ turn.kind = "reply"
    /\ turn.saved
    /\ running[1].memory_read.message_count > 0

(* C17: the embedding cache and the judge cache are append-only: a key    *)
(* once inserted stays, and the value stored under it is never changed    *)
(* by a later operation of the matcher.                                   *)
C17_CachesAreAppendOnly ==
    [][/\ \A t \in DOMAIN embedding_cache :
            /\ t \in DOMAIN embedding_cache'
            /\ embedding_cache'[t] = embedding_cache[t]
       /\ \A k \in DOMAIN judge_cache :
            /\ k \in DOMAIN judge_cache'
            /\ judge_cache'[k] = judge_cache[k]]_vars

(* The context and the ordered candidate ids of a bulk-ranking request. *)
RequestKey(call) ==
    [context |-> call.context,
     ids |-> [i \in 1..Len(call.candidates) |-> call.candidates[i].story_id]]

RankingRequest == calls' = calls + 1 /\ last'.op = "find" /\ last'.candidates # <<>>

(* C18: the judge cache is keyed by the context and the ordered list of   *)
(* candidate ids.  A bulk-ranking request is served from the cache, with  *)
(* no remote judge call, exactly when an entry with its own context and   *)
(* ordered ids exists, and then from that entry; a request that follows   *)
(* a judged request with the same context and ids is served from the      *)
(* cache; a judged request leaves its entry under its own key.            *)
C18_JudgeCacheKeyedByContextAndIds ==
    [][RankingRequest =>
        /\ last'.judge = "hit" <=> RequestKey(last') \in DOMAIN judge_cache
        /\ last'.judge = "hit" => last'.judged = judge_cache[RequestKey(last')]
        /\ last'.judge = "remote_ok" =>
              DOMAIN judge_cache' = DOMAIN judge_cache \cup {RequestKey(last')}
        /\ (/\ last.op = "find"
            /\ last.judge \in {"remote_ok", "hit"}
            /\ RequestKey(last') = RequestKey(last)) => last'.judge = "hit"]_vars

(* A second request with the context and the ids of the first was served  *)
(* from the cache, although its memory was another one.                   *)
C18_SecondRequestServedFromCache ==
    /\ calls = 2
    /\ last.op = "find"
    /\ last.judge = "hit"
    /\ last.memory.user_interests # <<>>
    /\ DOMAIN judge_cache = {RequestKey(last)}

(* C19: a cancelled remote call is treated exactly as a failure of that   *)
(* provider: the call returns what it returns on a provider error at      *)
(* that point, and the caches are left as a provider error leaves them.   *)
C19_CancellationIsAProviderFailure ==
    last.cancelled # "none" =>
        last.on_failure =
            <<[outcome |-> last.outcome, matches |-> last.matches,
               ecache |-> embedding_cache, jcache |-> judge_cache]>>

C21_UsageConfirmedOnlyOnDetection ==
    /\ turn.used =>
         /\ turn.kind = "reply"
         /\ turn.detected
         /\ turn.suggested # <<>>
         /\ chat_memories # <<>> =>
              /\ chat_memories[1].stories_shared # <<>>
              /\ chat_memories[1].stories_shared[
                     Len(chat_memories[1].stories_shared)] = turn.suggested[1]
    /\ turn.kind \in {"error", "placeholder"} => ~turn.used

(* The first story of a chat was suggested, detected in the reply and     *)
(* confirmed.                                                             *)
C21_ConfirmedAfterDetection ==
    /\ turn.kind = "reply"
    /\ turn.used
    /\ turn.detected
    /\ chat_memories # <<>>
    /\ chat_memories[1].stories_shared = turn.suggested

(* C22: no judge call is issued for an empty candidate set.  When the     *)
(* vector search returns no candidate or fails, find_relevant_stories     *)
(* returns the empty list and should_share_story returns should_share     *)
(* False, confidence 0.0 and no story_match, both without a judge call.   *)
C22_NoJudgeCallWithoutCandidates ==
    /\ last.judge \in {"remote_ok", "remote_fail", "hit"} => last.candidates # <<>>
    /\ last.gate \in {"judged", "fallback"} => last.candidates # <<>>
    /\ (last.op = "find" /\ last.embed # "fail" /\ last.candidates = <<>>) =>
          /\ last.outcome = "return"
          /\ last.matches = <<>>
          /\ last.judge = "skipped"
    /\ (last.op = "share" /\ last.embed # "fail" /\ last.candidates = <<>>) =>
          /\ last.outcome = "return"
          /\ ~last.decision.should_share
          /\ last.decision.confidence = 0
          /\ last.decision.story_match = <<>>
          /\ last.gate = "skipped"

(* A decision call whose vector search failed, on a matcher that has     *)
(* judged nothing so far.                                                 *)
C22_SearchFailedNoJudge ==
    /\ last.op = "share"
    /\ last.embed = "ok"
    /\ last.search = "fail"
    /\ last.candidates = <<>>
    /\ last.gate = "skipped"
    /\ judge_cache = EmptyCache
    /\ calls = 2

(* C23: the list returned by find_relevant_stories has at most            *)
(* max_stories elements, is ordered by non-increasing combined_score      *)
(* (after the boosts), and no judged match left out of it has a           *)
(* combined_score above that of a returned one.                           *)
C23_TopMatchesByCombinedScore ==
    (last.op = "find" /\ last.outcome = "return") =>
        /\ Len(last.matches) <= last.max_stories
        /\ Len(last.matches) = Min(last.max_stories, Len(last.ranked))
        /\ Len(last.ranked) = Len(last.judged)
        /\ \A i \in 1..Len(last.matches) : last.matches[i] = last.ranked[i]
        /\ \A i \in 1..(Len(last.matches) - 1) :
              CombinedScore(last.matches[i]) >=
                  CombinedScore(last.matches[i + 1])
        /\ \A i \in 1..Len(last.matches) :
              \A j \in (Len(last.matches) + 1)..Len(last.ranked) :
                  CombinedScore(last.ranked[j]) <=
                      CombinedScore(last.matches[i])

(* Of four judged matches two were returned, and the best of them is not  *)
(* the one the judge listed first.                                        *)
C23_TwoOfFourInAnotherOrder ==
    /\ last.op = "find"
    /\ last.max_stories = 2
    /\ Len(last.matches) = 2
    /\ Len(last.judged) > 2
    /\ last.matches[1].story.story_id # last.judged[1].story.story_id
    /\ CombinedScore(last.matches[1]) > CombinedScore(last.matches[2])

(* The similarity the vector search gave for the story of a match. *)
SearchSimilarity(call, m) ==
    (CHOOSE c \in Range(call.candidates) :
        c.story_id = m.story.story_id).similarity

(* C24: each match returned by find_relevant_stories has                  *)
(* vector_similarity equal to the similarity from the vector search plus  *)
(* exactly one novelty boost: +0.1 for used_count 0, +0.05 for used_count *)
(* 1 or 2, +0 from 3 on.                                                  *)
C24_ExactlyOneNoveltyBoost ==
    (last.op = "find" /\ last.outcome = "return") =>
        \A i \in 1..Len(last.matches) :
            last.matches[i].vector_similarity =
                SearchSimilarity(last, last.matches[i])
                  + (IF last.matches[i].story.used_count = 0 THEN 100
                     ELSE IF last.matches[i].story.used_count \in {1, 2}
                     THEN 50 ELSE 0)

(* The themes of a story that match, case-insensitively, an interest of   *)
(* the user.                                                              *)
MatchingThemes(m, interests) ==
    {j \in 1..Len(m.story.themes) :
        \E i \in 1..Len(interests) :
            Lower(interests[i]) = Lower(m.story.themes[j])}

BoostedJudgeScore(m, interests) ==
    Min(1000, m.llm_judge_score + 100 * Cardinality(MatchingThemes(m, interests)))

C26_JudgeScoreWithinUnitInterval ==
    \A m \in Range(last.judged) \cup Range(last.matches)
                \cup Range(last.decision.story_match) :
        m.llm_judge_score \in 0..1000

(* An evaluation of a judge reply that can be read and names a candidate. *)
WellFormed(ev, n) ==
    ev.idx_kind = "int" /\ ev.idx \in 1..n /\ ev.score_kind = "num"

(* C27: when one evaluation of a judge response cannot be parsed or names *)
(* an index out of range, only that candidate is dropped: every other     *)
(* evaluation gives a judged match with its score, and the ranking is not *)
(* replaced as a whole.                                                   *)
C27_OnlyTheOffendingCandidateDropped ==
    (last.op = "find" /\ last.reply # <<>> /\ last.reply[1].kind = "json") =>
        /\ \A i \in 1..Len(last.reply[1].evaluations) :
              WellFormed(last.reply[1].evaluations[i], Len(last.candidates)) =>
                  \E k \in 1..Len(last.judged) :
                      /\ last.judged[k].story.story_id =
                            last.candidates[
                                last.reply[1].evaluations[i].idx].story_id
                      /\ last.judged[k].llm_judge_score =
                            last.reply[1].evaluations[i].score
                      /\ last.judged[k].reasoning = "judged"
        /\ \A k \in 1..Len(last.judged) : last.judged[k].reasoning = "judged"

(* C28: in every result of should_share_story story_match is present if   *)
(* and only if should_share is True; it is absent when sharing is         *)
(* declined, fails or finds no candidate.                                 *)
C28_StoryMatchIffShared ==
    last.op = "share" =>
        /\ last.outcome = "return"
        /\ last.decision.story_match # <<>> <=> last.decision.should_share
        /\ last.decision.should_share =>
              last.decision.story_match = last.judged
        /\ (last.embed = "fail" \/ last.candidates = <<>>) =>
              last.decision.story_match = <<>>

(* A candidate was judged, sharing was declined, and no match handed out. *)
C28_DeclinedWithoutMatch ==
    /\ last.op = "share"
    /\ last.gate = "judged"
    /\ last.judged # <<>>
    /\ ~last.decision.should_share
    /\ last.decision.confidence > 0
    /\ last.decision.story_match = <<>>

(* C29: should_share_story judges only the first candidate of the search  *)
(* result; when the appropriateness judge call fails or its response      *)
(* cannot be parsed, the decision is still made, with the vector          *)
(* similarity of the candidate as the appropriateness score and the       *)
(* reasoning "Fallback to vector similarity" on the match.                *)
C29_GateFallsBackToSimilarity ==
    (last.op = "share" /\ last.candidates # <<>>) =>
        /\ Len(last.judged) = 1
        /\ last.judged[1].story.story_id = last.candidates[1].story_id
        /\ last.gate \in {"judged", "fallback"}
        /\ last.gate = "fallback" =>
              /\ last.outcome = "return"
              /\ last.judged[1].llm_judge_score = last.candidates[1].similarity
              /\ last.judged[1].vector_similarity = last.candidates[1].similarity
              /\ last.judged[1].reasoning = "Fallback to vector similarity"
              /\ last.decision.confidence =
                    AdjustedConfidence(last.judged[1], last.memory)
              /\ last.decision.should_share <=>
                    last.decision.confidence >= ShareThreshold

(* Three candidates, the gate failed, and the first one is shared on its  *)
(* similarity.                                                            *)
C29_SharedOnSimilarity ==
    /\ last.op = "share"
    /\ Len(last.candidates) = 3
    /\ last.gate = "fallback"
    /\ last.decision.should_share
    /\ last.decision.story_match[1].story.story_id = last.candidates[1].story_id
    /\ last.decision.story_match[1].llm_judge_score = 850

(* C30: two consecutive find_relevant_stories calls with the same         *)
(* context, memory, max_stories and vector-search result return the same  *)
(* stories in the same order with the same vector_similarity,             *)
(* llm_judge_score and combined_score.  (The first of the two was judged, *)
(* so that the second works from the same judgment.)                      *)
C30_FindIsIdempotent ==
    [][(/\ calls' = calls + 1
        /\ last.op = "find" /\ last'.op = "find"
        /\ last.judge \in {"remote_ok", "hit"}
        /\ last'.context = last.context
        /\ last'.memory = last.memory
        /\ last'.max_stories = last.max_stories
        /\ last'.candidates = last.candidates)
       => /\ Len(last'.matches) = Len(last.matches)
          /\ \A i \in 1..Len(last.matches) :
                /\ last'.matches[i].story = last.matches[i].story
                /\ last'.matches[i].vector_similarity =
                      last.matches[i].vector_similarity
                /\ last'.matches[i].llm_judge_score =
                      last.matches[i].llm_judge_score
                /\ CombinedScore(last'.matches[i]) =
                      CombinedScore(last.matches[i])]_vars

(* C31: the list returned by find_relevant_stories never holds two        *)
(* matches for the same story id, whatever evaluations the judge          *)
(* response contains.                                                     *)
C31_NoStoryReturnedTwice ==
    last.op = "find" =>
        \A i, j \in 1..Len(last.matches) :
            last.matches[i].story.story_id = last.matches[j].story.story_id
                => i = j

(* C32: if the reply-generation call fails, the turn has no effect on the *)
(* chat memory: the memory the bot holds is the one it held or, on first  *)
(* use, the one it loaded; nothing is saved and no usage confirmation is  *)
(* issued.                                                                *)
C32_FailedReplyLeavesMemory ==
    [][(/\ turn'.kind = "error"
        /\ is_initialized /\ is_initialized'
        /\ chat_memories' # <<>>)
       => /\ db_memory' = db_memory
          /\ used_count' = used_count
          /\ ~turn'.used
          /\ ~turn'.saved
          /\ chat_memories # <<>> => chat_memories' = chat_memories
          /\ chat_memories = <<>> =>
                /\ Len(chat_memories') = 1
                /\ chat_memories'[1] \in {DefaultMemory} \cup Range(db_memory)]_vars

(* The reply call failed in a turn in which a story had been suggested,   *)
(* in a chat with earlier messages.                                       *)
C32_FailedAfterSuggestion ==
    /\ turn.kind = "error"
    /\ turn.suggested # <<>>
    /\ chat_memories # <<>>
    /\ chat_memories[1].message_count > 0
    /\ chat_memories[1].stories_shared = <<>>

(* C33: when the remote bulk-judge call fails, the fallback matches are   *)
(* not stored and the judge cache is unchanged, so that a following       *)
(* request with the same context and candidate ids calls the remote judge *)
(* again.                                                                 *)
C33_JudgeFailureIsNotCached ==
    [][RankingRequest =>
        /\ last'.judge = "remote_fail" =>
              /\ judge_cache' = judge_cache
              /\ RequestKey(last') \notin DOMAIN judge_cache'
        /\ (/\ last.op = "find"
            /\ last.judge = "remote_fail"
            /\ RequestKey(last') = RequestKey(last))
           => last'.judge \in {"remote_ok", "remote_fail"}]_vars

(* The remote judge failed in the second call of a matcher, for a text    *)
(* already embedded, and the judge cache holds nothing.                   *)
C33_FailedAndNothingStored ==
    /\ calls = 2
    /\ last.op = "find"
    /\ last.embed = "hit"
    /\ last.judge = "remote_fail"
    /\ last.matches # <<>>
    /\ judge_cache = EmptyCache

(* A step of generate_response: it leaves a new record of the turn. *)
TurnStep == turn' # turn

(* C34: is_initialized is true only if the most recent initialize() or    *)
(* reload_configuration() returned True; generate_response consults the   *)
(* matcher and the reply model only while is_initialized is true, and     *)
(* otherwise returns the placeholder without touching the chat memory.    *)
C34_InitializedOnlyAfterSuccess ==
    [][/\ is_initialized' => init_result' = "True"
       /\ (TurnStep /\ turn'.kind \in {"reply", "error"}) => is_initialized
       /\ (TurnStep /\ ~is_initialized) =>
             /\ turn'.kind = "placeholder"
             /\ UNCHANGED <<chat_memories, db_memory, used_count,
                            embedding_cache, judge_cache>>]_vars

(* The decision of the same call had the judge response carried the       *)
(* given should_share_now.                                                *)
DecisionWithHint(call, hint) ==
    ShareJudged(
        EvaluateStorySharingAppropriateness(call.candidates[1],
            [call.gate_outcome[1] EXCEPT !.hint = hint]),
        call.memory).decision

(* C35: the decision of should_share_story does not depend on the         *)
(* should_share_now hint of the judge response: the run that differs only *)
(* in that boolean returns the same should_share, confidence and          *)
(* story_match.                                                           *)
C35_HintDoesNotDecide ==
    (last.op = "share" /\ last.gate_outcome # <<>>
        /\ last.gate_outcome[1].kind = "json") =>
        \A hint \in BOOLEAN :
            /\ DecisionWithHint(last, hint).should_share =
                  last.decision.should_share
            /\ DecisionWithHint(last, hint).confidence =
                  last.decision.confidence
            /\ DecisionWithHint(last, hint).story_match =
                  last.decision.story_match

(* The judge said should_share_now false and the story is shared. *)
C35_SharedAgainstTheHint ==
    /\ last.op = "share"
    /\ last.gate_outcome # <<>>
    /\ last.gate_outcome[1].kind = "json"
    /\ ~last.gate_outcome[1].hint
    /\ last.decision.should_share

(* The judged match of the call carries a similarity and a judge score    *)
(* within [0,1] and a distance that is not negative.                      *)
ScoresWithinUnitInterval(call) ==
    \A i \in 1..Len(call.judged) :
        /\ call.judged[i].vector_similarity \in 0..1000
        /\ call.judged[i].llm_judge_score \in 0..1000
        /\ call.judged[i].distance >= 0

(* C36: for a candidate similarity and a judge score within [0,1] and a   *)
(* distance >= 0, the confidence returned by should_share_story is never  *)
(* negative and never exceeds 1.2, and it exceeds 1.0 only in stage       *)
(* familiar.                                                              *)
C36_ConfidenceWithinBounds ==
    (last.op = "share" /\ ScoresWithinUnitInterval(last)) =>
        /\ last.decision.confidence >= 0
        /\ last.decision.confidence <= 1200000
        /\ last.decision.confidence > 1000000 =>
              last.memory.relationship_stage = "familiar"

(* A familiar chat is answered with a confidence above 1.0 on scores      *)
(* within [0,1].                                                          *)
C36_FamiliarAboveOne ==
    /\ last.op = "share"
    /\ last.judged # <<>>
    /\ ScoresWithinUnitInterval(last)
    /\ last.memory.relationship_stage = "familiar"
    /\ last.decision.confidence > 1000000

(* The number of rows of the table with the given story id. *)
RowsOf(table, id) == Cardinality({i \in 1..Len(table) : table[i] = id})

(* C37: initialize_story_embeddings never inserts an embedding record for *)
(* a story id that already has one for this bot, so running it a second   *)
(* time with the same stories inserts nothing, also when the lookup of    *)
(* existing embeddings fails.                                             *)
C37_NoSecondEmbeddingRecord ==
    [][\A id \in Stories :
          RowsOf(story_embeddings, id) >= 1 =>
              RowsOf(story_embeddings', id) = RowsOf(story_embeddings, id)]_vars

====
